---- MODULE Spec2Model ----
(***************************************************************************)
(* Model of plqu.c, the price level queue of clob: a static pool of        *)
(* growable ring buffers addressed by 1-based sequence ids, with a         *)
(* tombstone-skipping iterator.                                            *)
(*                                                                         *)
(* Buffers are sequences; C cell c of q->a is a[q][c + 1].  size_t is      *)
(* modelled modulo SizeMod (the real width is 2^64, which TLC's integers   *)
(* cannot hold); the wrap-arounds the code relies on (z-- on 0, z + 1 on   *)
(* the all-ones word, tail - head with head > tail) are kept.              *)
(***************************************************************************)
EXTENDS Integers, Sequences, FiniteSets, TLC

\* ------------------------------------------------------------ bounds
\* number of slots of _pool in the model (the source has 256)
PoolSize == 2
\* Spec: appends per queue lifetime
MaxTail == 3
\* largest starting id a caller gives an iterator
MaxStart == 2
\* largest id a caller passes to plqu_put directly
MaxPutId == 2
\* Spec, SpecPool: largest buffer a caller lets a queue grow to, in cells
MaxBuf == 16
\* SpecDeep: make_plqu calls
MaxMake == 2
\* SpecPool: make_plqu calls
PoolMaxMake == 5
\* SpecPool: appends per queue lifetime
PoolMaxTail == 1
\* SpecDeep: appends per queue lifetime
DeepMaxTail == 17
\* SpecDeep: largest buffer a caller lets a queue grow to, in cells
DeepMaxBuf == 32
\* SpecWrap: appends per queue lifetime
WrapMaxTail == 9
\* SpecWrap: largest starting id a caller gives an iterator
WrapMaxStart == 1

\* ------------------------------------------------------------ constants
PLQU_INIZ == 8
\* size_t arithmetic is modulo SizeMod
SizeMod == 2 ^ 16
\* plqu_val_nil, the tombstone
plqu_val_nil == 0
\* the NULL queue pointer of an unbound iterator
NULL == -1
\* content of a cell that realloc handed out and nobody wrote yet
Uninit == -2
\* what a read outside the allocated buffer yields
Wild == -3

Slots == 0 .. (PoolSize - 1)

VARIABLES
    z,      \* _pool[i].z
    a,      \* _pool[i].a, the backing buffer (<<>> is the NULL buffer)
    head,   \* _pool[i].head
    tail,   \* _pool[i].tail
    iter,   \* the caller's plqu_iter_t: [q, i, v]
    held,   \* per slot, the number of handles to it that callers hold
    oob,    \* make_plqu has dereferenced _pool + countof(_pool)
    last,   \* the last call: [op, q, i, v, ret]; i and v are kept for put
            \* (its arguments), add (i = 1 iff memory was available, v = 1
            \* iff the buffer was resized), next (i is the position the
            \* advance started from),
            \* set_top (i = 1 iff it directly follows an iter_next that found)
            \* and pop (i = 1 iff it directly follows such a set_top)
    gv,     \* per slot, by id, the value last passed for it to add/put
    did,    \* per slot, since make_plqu: a put or a commit has succeeded,
            \* pop has been called
    nmake,  \* the number of make_plqu calls so far
    exh,    \* the iterator's last plqu_iter_next returned false on a queue,
            \* and every call since was a plqu_add to that queue
    scen    \* how many calls of the reference scenario (make_plqu; three
            \* plqu_add; plqu_put(q, 2, nil); plqu_pop; an iterator at id 1;
            \* plqu_iter_next; plqu_iter_set_top; plqu_pop) the latest
            \* calls are, in that order on one queue; 0 if they are none

vars == <<z, a, head, tail, iter, held, oob, last, gv, did, nmake, exh, scen>>

\* ------------------------------------------------------------ helpers
\* x & y on size_t
RECURSIVE BitAnd(_, _)
BitAnd(x, y) ==
    IF x = 0 \/ y = 0 THEN 0
    ELSE (x % 2) * (y % 2) + 2 * BitAnd(x \div 2, y \div 2)

\* buf[c] as an rvalue
At(buf, c) == IF c >= 0 /\ c < Len(buf) THEN buf[c + 1] ELSE Wild

\* buf[c] = v
Store(buf, c, v) ==
    IF c >= 0 /\ c < Len(buf) THEN [buf EXCEPT ![c + 1] = v] ELSE buf

Call(op, q, i, v, ret) == [op |-> op, q |-> q, i |-> i, v |-> v, ret |-> ret]

NoFlags == [put |-> FALSE, pop |-> FALSE, commit |-> FALSE]

\* ------------------------------------------------------------ pool
\* the scan taking any non-zero z for "in use"
RECURSIVE next_free_nonzero(_)
next_free_nonzero(i) ==
    IF i < PoolSize /\ z[i] # 0 THEN next_free_nonzero(i + 1) ELSE i

\* the for loop of _next_free, from index i
RECURSIVE next_free_from(_)
next_free_from(i) ==
    IF i < PoolSize /\ BitAnd(z[i], 1) = 1 THEN next_free_from(i + 1) ELSE i

_next_free == next_free_from(0)

\* make_plqu marking the slot with r->z++
make_plqu_incr ==
    /\ ~oob
    /\ LET _ipool == _next_free IN
       IF _ipool < PoolSize
       THEN /\ z' = [z EXCEPT ![_ipool] = (z[_ipool] + 1) % SizeMod]
            /\ held' = [held EXCEPT ![_ipool] = @ + 1]
            /\ gv' = [gv EXCEPT ![_ipool] = <<>>]
            /\ did' = [did EXCEPT ![_ipool] = NoFlags]
            /\ last' = Call("make", _ipool, 0, 0, _ipool)
            /\ UNCHANGED oob
       ELSE /\ oob' = TRUE
            /\ \E o \in {"make", "fault"} : last' = Call(o, PoolSize, 0, 0, PoolSize)
            /\ UNCHANGED <<z, held, gv, did>>
    /\ nmake' = nmake + 1
    /\ UNCHANGED <<a, head, tail, iter>>

\* make_plqu: with every slot in use _next_free returns countof(_pool) and
\* r->z-- is an access one past the array: undefined behaviour, here either
\* the call returning a handle to the word after the array (op "make",
\* ret = PoolSize) or the process faulting in it (op "fault"); nothing is
\* defined after it.
make_plqu ==
    /\ ~oob
    /\ LET _ipool == _next_free IN
       IF _ipool < PoolSize
       THEN /\ z' = [z EXCEPT ![_ipool] = (z[_ipool] - 1) % SizeMod]
            /\ held' = [held EXCEPT ![_ipool] = @ + 1]
            /\ gv' = [gv EXCEPT ![_ipool] = <<>>]
            /\ did' = [did EXCEPT ![_ipool] = NoFlags]
            /\ last' = Call("make", _ipool, 0, 0, _ipool)
            /\ UNCHANGED oob
       ELSE /\ oob' = TRUE
            /\ \E o \in {"make", "fault"} : last' = Call(o, PoolSize, 0, 0, PoolSize)
            /\ UNCHANGED <<z, held, gv, did>>
    /\ nmake' = nmake + 1
    /\ UNCHANGED <<a, head, tail, iter>>

\* free_plqu without q->tail = 0U
free_plqu_keeps_tail(q) ==
    /\ ~oob
    /\ head' = [head EXCEPT ![q] = 0]
    /\ z' = [z EXCEPT ![q] = (z[q] + 1) % SizeMod]
    /\ held' = [held EXCEPT ![q] = @ - 1]
    /\ gv' = [gv EXCEPT ![q] = <<>>]
    /\ did' = [did EXCEPT ![q] = NoFlags]
    /\ last' = Call("free", q, 0, 0, 0)
    /\ UNCHANGED <<a, tail, iter, oob, nmake>>

\* free_plqu giving the buffer back as well
free_plqu_shrinks(q) ==
    /\ ~oob
    /\ head' = [head EXCEPT ![q] = 0]
    /\ tail' = [tail EXCEPT ![q] = 0]
    /\ z' = [z EXCEPT ![q] = 0]
    /\ a' = [a EXCEPT ![q] = <<>>]
    /\ held' = [held EXCEPT ![q] = @ - 1]
    /\ gv' = [gv EXCEPT ![q] = <<>>]
    /\ did' = [did EXCEPT ![q] = NoFlags]
    /\ last' = Call("free", q, 0, 0, 0)
    /\ UNCHANGED <<iter, oob, nmake>>

free_plqu(q) ==
    /\ ~oob
    /\ head' = [head EXCEPT ![q] = 0]
    /\ tail' = [tail EXCEPT ![q] = 0]
    /\ z' = [z EXCEPT ![q] = (z[q] + 1) % SizeMod]
    /\ held' = [held EXCEPT ![q] = @ - 1]
    /\ gv' = [gv EXCEPT ![q] = <<>>]
    /\ did' = [did EXCEPT ![q] = NoFlags]
    /\ last' = Call("free", q, 0, 0, 0)
    /\ UNCHANGED <<a, iter, oob, nmake>>

\* ------------------------------------------------------------ queue
InRange(q, i) == i > head[q] /\ i <= tail[q]

slot_of(q, i) == BitAnd((i - 1) % SizeMod, z[q])

plqu_get(q, i) ==
    IF ~InRange(q, i) THEN plqu_val_nil ELSE At(a[q], slot_of(q, i))

\* the return value and the buffer of plqu_put
put_ret(q, i) == IF ~InRange(q, i) THEN -1 ELSE 0

put_buf(q, i, v) ==
    IF ~InRange(q, i) THEN a[q] ELSE Store(a[q], slot_of(q, i), v)

put_gv(q, i, v) ==
    IF InRange(q, i) /\ i <= Len(gv[q]) THEN [gv[q] EXCEPT ![i] = v] ELSE gv[q]

plqu_put(q, i, v) ==
    /\ ~oob
    /\ a' = [a EXCEPT ![q] = put_buf(q, i, v)]
    /\ gv' = [gv EXCEPT ![q] = put_gv(q, i, v)]
    /\ did' = [did EXCEPT ![q].put = @ \/ put_ret(q, i) = 0]
    /\ last' = Call("put", q, i, v, put_ret(q, i))
    /\ UNCHANGED <<z, head, tail, iter, held, oob, nmake>>

\* tail - head >= z + 1U
need_resize(q) == (tail[q] - head[q]) % SizeMod >= (z[q] + 1) % SizeMod

\* ((z + 1U) * 2U) ?: PLQU_INIZ
nuz(zz) ==
    LET d == (((zz + 1) % SizeMod) * 2) % SizeMod
    IN  IF d # 0 THEN d ELSE PLQU_INIZ

\* realloc to nuz cells without the memcpy
resized_nocopy(buf, zz) ==
    [k \in 1 .. nuz(zz) |-> IF k <= Len(buf) THEN buf[k] ELSE Uninit]

\* realloc to nuz cells, then memcpy(a + (z + 1U), a, z + 1U)
resized(buf, zz) ==
    LET n == (zz + 1) % SizeMod
        nz == nuz(zz)
        re == [k \in 1 .. nz |-> IF k <= Len(buf) THEN buf[k] ELSE Uninit]
    IN  [k \in 1 .. nz |-> IF k > n /\ k <= 2 * n /\ k - n <= Len(re)
                           THEN re[k - n] ELSE re[k]]

\* the cell of q->a[q->tail++ & q->z], zz being q->z by then
add_slot_pre(q, zz) == BitAnd((tail[q] + 1) % SizeMod, zz)

add_slot(q, zz) == BitAnd(tail[q], zz)

\* plqu_add with q->a = realloc(q->a, ...) assigned before the NULL test
plqu_add_lost(q, v, mem) ==
    /\ ~oob
    /\ IF need_resize(q) /\ ~mem
       THEN /\ last' = Call("add", q, 0, 0, 0)
            /\ a' = [a EXCEPT ![q] = <<>>]
            /\ UNCHANGED <<z, tail, gv>>
       ELSE LET buf == IF need_resize(q) THEN resized(a[q], z[q]) ELSE a[q]
                zz == IF need_resize(q) THEN nuz(z[q]) - 1 ELSE z[q]
                t == (tail[q] + 1) % SizeMod
            IN  /\ a' = [a EXCEPT ![q] = Store(buf, add_slot(q, zz), v)]
                /\ z' = [z EXCEPT ![q] = zz]
                /\ tail' = [tail EXCEPT ![q] = t]
                /\ gv' = [gv EXCEPT ![q] = Append(@, v)]
                /\ last' = Call("add", q, IF mem THEN 1 ELSE 0,
                                IF need_resize(q) THEN 1 ELSE 0, t)
    /\ UNCHANGED <<head, iter, held, oob, did, nmake>>

\* plqu_add; mem says whether realloc, if called, returns a block
plqu_add(q, v, mem) ==
    /\ ~oob
    /\ IF need_resize(q) /\ ~mem
       THEN /\ last' = Call("add", q, 0, 0, 0)
            /\ UNCHANGED <<z, a, tail, gv>>
       ELSE LET buf == IF need_resize(q) THEN resized(a[q], z[q]) ELSE a[q]
                zz == IF need_resize(q) THEN nuz(z[q]) - 1 ELSE z[q]
                t == (tail[q] + 1) % SizeMod
            IN  /\ a' = [a EXCEPT ![q] = Store(buf, add_slot(q, zz), v)]
                /\ z' = [z EXCEPT ![q] = zz]
                /\ tail' = [tail EXCEPT ![q] = t]
                /\ gv' = [gv EXCEPT ![q] = Append(@, v)]
                /\ last' = Call("add", q, IF mem THEN 1 ELSE 0,
                                IF need_resize(q) THEN 1 ELSE 0, t)
    /\ UNCHANGED <<head, iter, held, oob, did, nmake>>

plqu_top(q) ==
    IF head[q] < tail[q] THEN At(a[q], BitAnd(head[q], z[q])) ELSE plqu_val_nil

\* ghost: this call directly follows a set_top that followed a found advance
Chained(q) ==
    IF last.op = "set_top" /\ last.i = 1 /\ last.q = q THEN 1 ELSE 0

\* a caller calling plqu_top: it only reads
plqu_top_call(q) ==
    /\ ~oob
    /\ last' = Call("top", q, 0, 0, plqu_top(q))
    /\ UNCHANGED <<z, a, head, tail, iter, held, oob, gv, did, nmake>>

\* plqu_pop advancing head only past a value that is not nil
plqu_pop_keeps_nil(q) ==
    /\ ~oob
    /\ IF head[q] < tail[q]
       THEN LET r == At(a[q], BitAnd(head[q], z[q]))
            IN  /\ head' = [head EXCEPT ![q] =
                                IF r = plqu_val_nil THEN @ ELSE (@ + 1) % SizeMod]
                /\ last' = Call("pop", q, Chained(q), 0, r)
       ELSE /\ last' = Call("pop", q, Chained(q), 0, plqu_val_nil)
            /\ UNCHANGED head
    /\ did' = [did EXCEPT ![q].pop = TRUE]
    /\ UNCHANGED <<z, a, tail, iter, held, oob, gv, nmake>>

plqu_pop(q) ==
    /\ ~oob
    /\ IF head[q] < tail[q]
       THEN /\ head' = [head EXCEPT ![q] = (head[q] + 1) % SizeMod]
            /\ last' = Call("pop", q, Chained(q), 0, At(a[q], BitAnd(head[q], z[q])))
       ELSE /\ last' = Call("pop", q, Chained(q), 0, plqu_val_nil)
            /\ UNCHANGED head
    /\ did' = [did EXCEPT ![q].pop = TRUE]
    /\ UNCHANGED <<z, a, tail, iter, held, oob, gv, nmake>>

\* ------------------------------------------------------------ iterator
Unbound == [q |-> NULL, i |-> 0, v |-> plqu_val_nil]

\* the caller's plqu_iter_t it = {.q = q, .i = start}
make_iter(q, start) ==
    /\ ~oob
    /\ iter' = [q |-> q, i |-> start, v |-> plqu_val_nil]
    /\ last' = Call("iter", q, 0, 0, 0)
    /\ UNCHANGED <<z, a, head, tail, held, oob, gv, did, nmake>>

\* the while loop without the plqu_val_nil_p test: the first cell is "good"
iter_scan_any(q, i) ==
    IF i < tail[q]
    THEN [i |-> i + 1, v |-> At(a[q], BitAnd(i, z[q])), found |-> TRUE]
    ELSE [i |-> (tail[q] + 1) % SizeMod, v |-> iter.v, found |-> FALSE]

\* the while loop of plqu_iter_next, from position i
RECURSIVE iter_scan(_, _)
iter_scan(q, i) ==
    IF i < tail[q]
    THEN LET c == At(a[q], BitAnd(i, z[q]))
         IN  IF c # plqu_val_nil
             THEN [i |-> i + 1, v |-> c, found |-> TRUE]
             ELSE iter_scan(q, i + 1)
    ELSE [i |-> (tail[q] + 1) % SizeMod, v |-> iter.v, found |-> FALSE]

\* plqu_iter_next without the iter->i < head test
plqu_iter_next_noclamp ==
    /\ ~oob
    /\ IF iter.q = NULL
       THEN /\ last' = Call("next", NULL, 0, 0, 0)
            /\ UNCHANGED iter
       ELSE LET r == iter_scan(iter.q, iter.i)
            IN  /\ iter' = [q |-> iter.q, i |-> r.i, v |-> r.v]
                /\ last' = Call("next", iter.q, iter.i, 0, IF r.found THEN 1 ELSE 0)
    /\ UNCHANGED <<z, a, head, tail, held, oob, gv, did, nmake>>

plqu_iter_next ==
    /\ ~oob
    /\ IF iter.q = NULL
       THEN /\ last' = Call("next", NULL, 0, 0, 0)
            /\ UNCHANGED iter
       ELSE LET i0 == IF iter.i < head[iter.q] THEN head[iter.q] ELSE iter.i
                r == iter_scan(iter.q, i0)
            IN  /\ iter' = [q |-> iter.q, i |-> r.i, v |-> r.v]
                /\ last' = Call("next", iter.q, iter.i, 0, IF r.found THEN 1 ELSE 0)
    /\ UNCHANGED <<z, a, head, tail, held, oob, gv, did, nmake>>

\* only called on a bound iterator (it dereferences iter.q)
plqu_iter_qid(it) == IF it.i <= tail[it.q] THEN it.i ELSE 0

iter_put_ok == iter.q # NULL /\ ~(iter.i = 0 \/ iter.i > tail[iter.q])

plqu_iter_put(v) ==
    /\ ~oob
    /\ IF iter_put_ok
       THEN /\ a' = [a EXCEPT ![iter.q] = put_buf(iter.q, iter.i, v)]
            /\ gv' = [gv EXCEPT ![iter.q] = put_gv(iter.q, iter.i, v)]
            /\ did' = [did EXCEPT ![iter.q].put = @ \/ put_ret(iter.q, iter.i) = 0]
            /\ last' = Call("iter_put", iter.q, 0, v, put_ret(iter.q, iter.i))
       ELSE /\ last' = Call("iter_put", iter.q, 0, v, -1)
            /\ UNCHANGED <<a, gv, did>>
    /\ UNCHANGED <<z, head, tail, iter, held, oob, nmake>>

\* the guards of plqu_iter_set_top without the !iter.i test
set_top_ok_bound == iter.q # NULL

\* the guards of plqu_iter_set_top
set_top_ok == iter.q # NULL /\ iter.i # 0

\* iter.q->head = iter.i, the id itself
top_head_at(i) == i

\* iter.q->head = iter.i - 1U
top_head(i) == (i - 1) % SizeMod

plqu_iter_set_top ==
    /\ ~oob
    /\ IF set_top_ok
       THEN /\ head' = [head EXCEPT ![iter.q] = top_head(iter.i)]
            /\ did' = [did EXCEPT ![iter.q].commit = TRUE]
            /\ last' = Call("set_top", iter.q, IF last.op = "next" /\ last.ret = 1 THEN 1 ELSE 0, 0, 0)
       ELSE /\ last' = Call("set_top", iter.q, 0, 0, -1)
            /\ UNCHANGED <<head, did>>
    /\ UNCHANGED <<z, a, tail, iter, held, oob, gv, nmake>>

\* ------------------------------------------------------------ callers
\* static storage: every slot zeroed
Init ==
    /\ z = [s \in Slots |-> 0]
    /\ a = [s \in Slots |-> <<>>]
    /\ head = [s \in Slots |-> 0]
    /\ tail = [s \in Slots |-> 0]
    /\ iter = Unbound
    /\ held = [s \in Slots |-> 0]
    /\ oob = FALSE
    /\ last = Call("init", NULL, 0, 0, 0)
    /\ gv = [s \in Slots |-> <<>>]
    /\ did = [s \in Slots |-> NoFlags]
    /\ nmake = 0
    /\ exh = FALSE
    /\ scen = 0

Held(q) == held[q] > 0

\* the value a caller appends: the code only ever tests a value for nil,
\* so every appended value is a non-nil value tagged with slot and id
AddVals(q) == {100 * (q + 1) + tail[q] + 1}

PutVals == {plqu_val_nil, 99}

\* q's owner appends, while tail < mt and the buffer stays within mb cells
Append1(q, mt, mb) ==
    \E mem \in BOOLEAN, v \in AddVals(q) :
        /\ tail[q] < mt
        /\ need_resize(q) => nuz(z[q]) <= mb
        /\ plqu_add(q, v, mem)

\* the two call histories after the call that last' records
Watch ==
    /\ exh' =
        IF last'.op = "next" THEN last'.ret = 0 /\ iter.q # NULL
        ELSE exh /\ last'.op = "add" /\ last'.q = iter.q
    /\ scen' =
        IF last'.op = "make" /\ ~oob' THEN 1
        ELSE IF last'.q # last.q THEN 0
        ELSE IF scen \in 1 .. 3 /\ last'.op = "add" /\ last'.i = 1 THEN scen + 1
        ELSE IF scen = 4 /\ last'.op = "put" /\ last'.i = 2
                /\ last'.v = plqu_val_nil THEN 5
        ELSE IF scen = 5 /\ last'.op = "pop" THEN 6
        ELSE IF scen = 6 /\ last'.op = "iter" /\ iter'.i = 1 THEN 7
        ELSE IF scen = 7 /\ last'.op = "next" THEN 8
        ELSE IF scen = 8 /\ last'.op = "set_top" THEN 9
        ELSE IF scen = 9 /\ last'.op = "pop" THEN 10
        ELSE 0

\* Spec: one queue from its make_plqu to its free_plqu, every operation
Next ==
    \/ nmake = 0 /\ make_plqu /\ Watch
    \/ \E q \in Slots : Held(q) /\ iter.q # q /\ free_plqu(q) /\ Watch
    \/ \E q \in Slots : Held(q) /\ Append1(q, MaxTail, MaxBuf) /\ Watch
    \/ \E q \in Slots, i \in 0 .. MaxPutId, v \in PutVals : Held(q) /\ plqu_put(q, i, v) /\ Watch
    \/ \E q \in Slots : Held(q) /\ plqu_pop(q) /\ Watch
    \/ \E q \in Slots : Held(q) /\ plqu_top_call(q) /\ Watch
    \/ \E q \in Slots, s \in 0 .. MaxStart : Held(q) /\ make_iter(q, s) /\ Watch
    \/ make_iter(NULL, 0) /\ Watch
    \/ plqu_iter_next /\ Watch
    \/ \E v \in PutVals : plqu_iter_put(v) /\ Watch
    \/ plqu_iter_set_top /\ Watch

Spec == Init /\ [][Next]_vars

\* SpecDeep: one owner holding one queue at a time, long queues; the only
\* put is the tombstone at id 1, the iterator is only made, at id 1, and
\* committed
NextDeep ==
    \/ (\A s \in Slots : ~Held(s)) /\ nmake < MaxMake /\ make_plqu /\ Watch
    \/ \E q \in Slots : Held(q) /\ iter.q # q /\ free_plqu(q) /\ Watch
    \/ \E q \in Slots : Held(q) /\ Append1(q, DeepMaxTail, DeepMaxBuf) /\ Watch
    \/ \E q \in Slots : Held(q) /\ plqu_put(q, 1, plqu_val_nil) /\ Watch
    \/ \E q \in Slots : Held(q) /\ plqu_pop(q) /\ Watch
    \/ \E q \in Slots : Held(q) /\ make_iter(q, 1) /\ Watch
    \/ make_iter(NULL, 0) /\ Watch
    \/ plqu_iter_set_top /\ Watch

SpecDeep == Init /\ [][NextDeep]_vars

\* SpecWrap: one queue, appended to past its first 8 cells so that ids
\* wrap around in the buffer, walked by an iterator made at id 0 or 1; the
\* tombstone is only ever put at id 1, directly or through the iterator
NextWrap ==
    \/ nmake = 0 /\ make_plqu /\ Watch
    \/ \E q \in Slots : Held(q) /\ Append1(q, WrapMaxTail, MaxBuf) /\ Watch
    \/ \E q \in Slots : Held(q) /\ plqu_put(q, 1, plqu_val_nil) /\ Watch
    \/ \E q \in Slots : Held(q) /\ plqu_pop(q) /\ Watch
    \/ \E q \in Slots, s \in 0 .. WrapMaxStart : Held(q) /\ make_iter(q, s) /\ Watch
    \/ plqu_iter_next /\ Watch
    \/ iter.i = 1 /\ plqu_iter_put(plqu_val_nil) /\ Watch
    \/ plqu_iter_set_top /\ Watch

SpecWrap == Init /\ [][NextWrap]_vars

\* SpecPool: callers holding any number of queues, each short
NextPool ==
    \/ nmake < PoolMaxMake /\ make_plqu /\ Watch
    \/ \E q \in Slots : Held(q) /\ free_plqu(q) /\ Watch
    \/ \E q \in Slots : Held(q) /\ Append1(q, PoolMaxTail, MaxBuf) /\ Watch
    \/ \E q \in Slots : Held(q) /\ plqu_pop(q) /\ Watch

SpecPool == Init /\ [][NextPool]_vars

\* ------------------------------------------------------------ claims
\* q has seen nothing but plqu_add since make_plqu
OnlyAppends(q) == ~did[q].put /\ ~did[q].pop /\ ~did[q].commit

\* q has seen no successful put and no commit since make_plqu
OnlyAddPop(q) == ~did[q].put /\ ~did[q].commit

\* C1: on a freshly acquired queue that has only been appended to, the
\* i-th successful plqu_add returned i (the new tail), and plqu_get(id)
\* is the value passed to the id-th append for every id in 1..n.
C1_AppendIds ==
    \A q \in Slots :
        Held(q) /\ OnlyAppends(q) =>
            /\ head[q] = 0
            /\ tail[q] = Len(gv[q])
            /\ \A id \in 1 .. Len(gv[q]) : plqu_get(q, id) = gv[q][id]
            /\ (last.op = "add" /\ last.q = q /\ last.ret # 0) =>
                   last.ret = Len(gv[q]) /\ last.ret = tail[q]

\* 17 appends in a row: the buffer went NULL -> 8 -> 16 -> 32
C1_Witness ==
    /\ Held(0) /\ OnlyAppends(0)
    /\ last.op = "add" /\ last.ret = 17 /\ Len(a[0]) = 32

\* C2: when plqu_add resizes, every id that was in (head, tail] before the
\* call reads after it, at cell (id - 1) mod the new capacity, the value
\* plqu_get gave for it before.
C2_GrowthKeepsValues ==
    [][\A q \in Slots :
          (last'.op = "add" /\ last'.q = q /\ Len(a'[q]) # Len(a[q])) =>
              \A id \in 1 .. tail[q] :
                  InRange(q, id) =>
                      /\ plqu_get(q, id)' = plqu_get(q, id)
                      /\ At(a'[q], (id - 1) % Len(a'[q])) = plqu_get(q, id)]_vars

\* C3: without put and commit, the k-th successful plqu_pop returns the
\* value of the k-th append, ids 1..head read nil, and plqu_top is the
\* value of append head + 1 (nil on an empty queue).
C3_Fifo ==
    [][\A q \in Slots :
          Held(q)' /\ OnlyAddPop(q)' =>
              /\ tail'[q] = Len(gv'[q])
              /\ head'[q] <= tail'[q]
              /\ \A id \in 1 .. head'[q] : plqu_get(q, id)' = plqu_val_nil
              /\ plqu_top(q)' = IF head'[q] < tail'[q]
                                THEN gv'[q][head'[q] + 1] ELSE plqu_val_nil
              /\ (last'.op = "pop" /\ last'.q = q /\ head[q] < tail[q]) =>
                     /\ head'[q] = head[q] + 1
                     /\ last'.ret = gv[q][head[q] + 1]]_vars

\* nine pops of a queue of 17, the window having wrapped in the buffer
C3_Witness ==
    /\ Held(0) /\ OnlyAddPop(0)
    /\ last.op = "pop" /\ last.ret = 109 /\ head[0] = 9 /\ tail[0] = 17

\* C6: a slot that make_plqu hands out again is empty: head = tail = 0,
\* every plqu_get and plqu_top is nil, a plqu_pop right after returns nil
\* and the first plqu_add returns id 1.
C6_RoundTrip ==
    [][\A q \in Slots :
          /\ (last'.op = "make" /\ last'.ret = q) =>
                 /\ head'[q] = 0 /\ tail'[q] = 0
                 /\ \A id \in 0 .. (DeepMaxTail + 1) : plqu_get(q, id)' = plqu_val_nil
                 /\ plqu_top(q)' = plqu_val_nil
          /\ (last.op = "make" /\ last.ret = q /\ last'.op = "pop" /\ last'.q = q) =>
                 last'.ret = plqu_val_nil /\ head'[q] = 0
          /\ (last.op = "make" /\ last.ret = q /\ last'.op = "add" /\ last'.q = q
                 /\ last'.i = 1) =>
                 last'.ret = 1]_vars

\* the slot comes back with the 32 cells and the contents of its first life
C6_Witness ==
    /\ last.op = "make" /\ last.ret = 0 /\ nmake = 2
    /\ Len(a[0]) = 32 /\ At(a[0], 16) = 117

\* C10: a plqu_add whose realloc fails returns 0 and leaves head, tail, z
\* and the buffer as they were, so every plqu_get is as before; the next
\* plqu_add that gets memory succeeds with id tail + 1.
C10_GrowthFailure ==
    [][\A q \in Slots :
          /\ (last'.op = "add" /\ last'.q = q /\ need_resize(q) /\ last'.i = 0) =>
                 /\ last'.ret = 0
                 /\ head' = head /\ tail' = tail /\ z' = z /\ a' = a
                 /\ \A id \in 0 .. (DeepMaxTail + 1) : plqu_get(q, id)' = plqu_get(q, id)
          /\ (last.op = "add" /\ last.ret = 0 /\ last.q = q
                 /\ last'.op = "add" /\ last'.q = q /\ last'.i = 1) =>
                 last'.ret = tail[q] + 1 /\ tail'[q] = tail[q] + 1]_vars

\* realloc failed on a full buffer of 16
C10_Witness ==
    /\ last.op = "add" /\ last.ret = 0 /\ last.q = 0
    /\ tail[0] - head[0] = 16 /\ Len(a[0]) = 16

\* every slot's liveness bit is set
AllInUse == \A s \in Slots : BitAnd(z[s], 1) = 1

\* C4: make_plqu on a pool with every slot in use fails explicitly: no
\* handle, no slot changed, no access past the end of _pool.
C4_ExhaustedFails ==
    [][(AllInUse /\ nmake' = nmake + 1) =>
          /\ ~oob'
          /\ last'.op = "make" /\ last'.ret = NULL
          /\ z' = z /\ a' = a /\ head' = head /\ tail' = tail]_vars

\* C5: make_plqu (with a slot free) returns the lowest slot no caller
\* holds, so no slot ever has two handles; a freed slot is handed out
\* again.
C5_Exclusive ==
    [][/\ \A s \in Slots : held'[s] <= 1
       /\ \A q \in Slots :
             (last'.op = "make" /\ last'.ret = q /\ ~oob') =>
                 /\ held[q] = 0
                 /\ \A s \in 0 .. (q - 1) : held[s] > 0]_vars

\* slot 0, freed after it grew, is handed out again while slot 1 is held
C5_Witness ==
    /\ last.op = "make" /\ last.ret = 0 /\ held[0] = 1 /\ held[1] = 1
    /\ Len(a[0]) = 8 /\ nmake >= 3

\* C7: a commit right after an advance that found id k succeeds, makes
\* head = k - 1 and leaves tail, z and the buffer alone; a plqu_pop right
\* after returns the value at id k (the one the advance exposed) and
\* leaves head = k.
C7_CommitThenPop ==
    [][/\ (last.op = "next" /\ last.ret = 1 /\ last'.op = "set_top") =>
             /\ last'.ret = 0
             /\ head' = [head EXCEPT ![iter.q] = iter.i - 1]
             /\ tail' = tail /\ z' = z /\ a' = a
       /\ (last'.op = "pop" /\ last'.i = 1) =>
             /\ last'.q = iter.q
             /\ head[iter.q] = iter.i - 1
             /\ last'.ret = plqu_get(iter.q, iter.i)
             /\ last'.ret = iter.v /\ last'.ret # plqu_val_nil
             /\ head' = [head EXCEPT ![iter.q] = iter.i]]_vars

\* the advance skipped the tombstone at id 1 and found id 2, the commit
\* made head = 1 and the pop returned the value of id 2
C7_Witness ==
    /\ last.op = "pop" /\ last.i = 1 /\ last.ret = 102
    /\ iter.i = 2 /\ head[0] = 2 /\ gv[0][1] = plqu_val_nil

C11_Tombstones ==
    [][/\ \A q \in Slots :
             /\ (last'.op = "put" /\ last'.q = q /\ last'.ret = 0
                    /\ last'.v = plqu_val_nil) =>
                    \A id \in 0 .. (MaxTail + 1) :
                        last'.i = id => plqu_get(q, id)' = plqu_val_nil
             /\ (last'.op = "iter_put" /\ last'.q = q /\ last'.ret = 0
                    /\ last'.v = plqu_val_nil) =>
                    plqu_get(q, iter.i)' = plqu_val_nil
       /\ (last'.op = "next" /\ last'.ret = 1) =>
             /\ iter'.q = iter.q /\ iter.q # NULL
             /\ InRange(iter.q, iter'.i)
             /\ plqu_get(iter.q, iter'.i) # plqu_val_nil
             /\ iter'.v = plqu_get(iter.q, iter'.i)
             /\ a' = a /\ head' = head /\ tail' = tail]_vars

\* in a queue of nine ids on sixteen cells, an advance from position 0
\* skipped the tombstone put at id 1 and found id 2
C11_Witness ==
    /\ last.op = "next" /\ last.i = 0 /\ last.ret = 1
    /\ iter.q = 0 /\ iter.i = 2 /\ iter.v = gv[0][2]
    /\ head[0] = 0 /\ tail[0] = 9 /\ Len(a[0]) = 16
    /\ gv[0][1] = plqu_val_nil /\ plqu_get(0, 1) = plqu_val_nil

\* C12: plqu_pop with head < tail returns the value stored at id head + 1
\* and advances head by exactly one, also when that value is nil; with no
\* id in the queue it returns nil and changes nothing; plqu_top returns
\* what plqu_pop would and changes nothing.
C12_PopAndTop ==
    [][\A q \in Slots :
          /\ (last'.op = "pop" /\ last'.q = q) =>
                 /\ last'.ret = plqu_top(q)
                 /\ tail' = tail /\ z' = z /\ a' = a
                 /\ IF head[q] < tail[q]
                    THEN /\ last'.ret = plqu_get(q, head[q] + 1)
                         /\ head' = [head EXCEPT ![q] = head[q] + 1]
                    ELSE /\ last'.ret = plqu_val_nil
                         /\ head' = head
          /\ (last'.op = "top" /\ last'.q = q) =>
                 /\ last'.ret = IF head[q] < tail[q]
                                THEN plqu_get(q, head[q] + 1) ELSE plqu_val_nil
                 /\ head' = head /\ tail' = tail /\ z' = z /\ a' = a
                 /\ iter' = iter]_vars

\* the tombstoned front, id 1 of three, was popped: nil came back and
\* head advanced to 1
C12_Witness ==
    /\ last.op = "pop" /\ last.q = 0 /\ last.ret = plqu_val_nil
    /\ head[0] = 1 /\ tail[0] = 3 /\ ~did[0].commit
    /\ gv[0][1] = plqu_val_nil /\ plqu_get(0, 2) # plqu_val_nil

\* C13: plqu_put with an id outside (head, tail] returns -1 and changes
\* nothing, and plqu_get of such an id is nil; plqu_put with an id in
\* (head, tail] returns 0, leaves head, tail and z alone, makes
\* plqu_get(id) the written value and leaves plqu_get of every other id
\* as it was.
C13_PutGetRange ==
    [][\A q \in Slots : \A id \in 0 .. (DeepMaxTail + 1) :
          (last'.op = "put" /\ last'.q = q /\ last'.i = id) =>
              /\ head' = head /\ tail' = tail /\ z' = z
              /\ IF InRange(q, id)
                 THEN /\ last'.ret = 0
                      /\ plqu_get(q, id)' = last'.v
                      /\ \A j \in 0 .. (DeepMaxTail + 1) :
                             j # id => plqu_get(q, j)' = plqu_get(q, j)
                 ELSE /\ last'.ret = -1
                      /\ a' = a
                      /\ plqu_get(q, id) = plqu_val_nil]_vars

\* C14: along the reference scenario on a freshly acquired queue, the
\* three appends return ids 1, 2, 3; plqu_put(q, 2, nil) returns 0; the
\* pop returns the first appended value and leaves head = 1; the advance
\* of an iterator started at id 1 reports found at id 3 with the third
\* appended value; the commit returns 0 and makes head = 2; the last pop
\* returns the third appended value, the one at id head + 1 = 3.
C14_Scenario ==
    \A q \in Slots :
        (scen >= 1 /\ last.q = q) =>
            /\ scen \in 2 .. 4 =>
                   last.ret = scen - 1 /\ tail[q] = scen - 1 /\ head[q] = 0
            /\ scen = 5 => last.ret = 0 /\ plqu_get(q, 2) = plqu_val_nil
            /\ scen = 6 =>
                   last.ret = 100 * (q + 1) + 1 /\ head[q] = 1 /\ tail[q] = 3
            /\ scen = 8 =>
                   /\ last.ret = 1 /\ iter.i = 3 /\ plqu_iter_qid(iter) = 3
                   /\ iter.v = 100 * (q + 1) + 3
                   /\ head[q] = 1 /\ tail[q] = 3
            /\ scen = 9 => last.ret = 0 /\ head[q] = 2 /\ tail[q] = 3
            /\ scen = 10 =>
                   /\ last.ret = 100 * (q + 1) + 3
                   /\ head[q] = 3 /\ tail[q] = 3

\* the scenario has run to its last pop
C14_Witness ==
    /\ scen = 10 /\ last.op = "pop" /\ last.q = 0 /\ last.ret = 103
    /\ gv[0] = <<101, plqu_val_nil, 103>>

\* the ids an advance from position i on q can land on: those in
\* (max(i, head), tail] whose value is not nil
Landing(q, i) ==
    {id \in 1 .. tail[q] :
        id > i /\ id > head[q] /\ plqu_get(q, id) # plqu_val_nil}

\* C15: plqu_iter_next on a bound iterator at position i reports found
\* exactly when some id in (max(i, head), tail] holds a value that is not
\* nil, and then leaves the position at the smallest such id and exposes
\* its value; otherwise it reports not-found and leaves the position at
\* tail + 1.  Either way head, tail, z and the buffer are unchanged.  On
\* an unbound iterator it reports not-found.
C15_Advance ==
    [][last'.op = "next" =>
          /\ head' = head /\ tail' = tail /\ z' = z /\ a' = a
          /\ iter'.q = iter.q
          /\ IF iter.q = NULL
             THEN last'.ret = 0
             ELSE LET C == Landing(iter.q, iter.i)
                  IN  IF C # {}
                      THEN /\ last'.ret = 1
                           /\ iter'.i \in C
                           /\ \A id \in C : iter'.i <= id
                           /\ iter'.v = plqu_get(iter.q, iter'.i)
                      ELSE /\ last'.ret = 0
                           /\ iter'.i = tail[iter.q] + 1]_vars

\* an advance from position 0, below head, ran over the tombstone at id
\* 3, the only id left of three, and stands exhausted at tail + 1
C15_Witness ==
    /\ last.op = "next" /\ last.i = 0 /\ last.ret = 0
    /\ iter.q = 0 /\ iter.i = 4
    /\ head[0] = 2 /\ tail[0] = 3 /\ gv[0][3] = plqu_val_nil
    /\ plqu_iter_qid(iter) = 0

\* n is a power of two >= 1
IsPow2(n) == \E k \in 0 .. 15 : n = 2 ^ k

\* C16 as claimed: every slot in use has z = buffer length - 1 (in size_t
\* arithmetic), the buffer length being a power of two >= 1.
C16_Capacity ==
    \A s \in Slots :
        Held(s) =>
            /\ z[s] = (Len(a[s]) - 1) % SizeMod
            /\ IsPow2(Len(a[s]))

\* C16 as amended: a slot in use that has a buffer has z = buffer length
\* - 1, the length being a power of two >= PLQU_INIZ; a slot in use that
\* never got a buffer (acquired for the first time, no successful append
\* yet) has no cells at all and z is the all-ones word.
C16_CapacityOrFresh ==
    \A s \in Slots :
        Held(s) =>
            IF Len(a[s]) = 0
            THEN z[s] = SizeMod - 1 /\ tail[s] = 0
            ELSE /\ z[s] = Len(a[s]) - 1
                 /\ IsPow2(Len(a[s])) /\ Len(a[s]) >= PLQU_INIZ

\* the first append to a fresh slot found no memory: the slot is in use,
\* still without a buffer
C16_Witness ==
    /\ last.op = "add" /\ last.q = 0 /\ last.ret = 0 /\ nmake = 1
    /\ Held(0) /\ Len(a[0]) = 0 /\ z[0] = SizeMod - 1

\* C17: free_plqu and make_plqu keep the buffer, and nothing touches the
\* buffer of a slot that is not in use, so a slot comes back with the
\* length it was released with; on a queue that has only been appended
\* to, a plqu_add with tail below the buffer length does not resize, and
\* the one with tail equal to it (append length + 1) resizes, if it gets
\* memory, to twice the length, or to PLQU_INIZ from no buffer.
C17_CapacityKept ==
    [][\A q \in Slots :
          /\ (last'.op = "free" /\ last'.q = q) =>
                 a'[q] = a[q] /\ z'[q] = Len(a[q])
          /\ ~Held(q) => a'[q] = a[q]
          /\ (last'.op = "make" /\ last'.ret = q) =>
                 /\ a'[q] = a[q]
                 /\ z'[q] = (Len(a[q]) - 1) % SizeMod
          /\ (last'.op = "add" /\ last'.q = q /\ OnlyAppends(q)) =>
                 IF tail[q] < Len(a[q])
                 THEN /\ last'.v = 0 /\ last'.ret = tail[q] + 1
                      /\ Len(a'[q]) = Len(a[q])
                 ELSE /\ tail[q] = Len(a[q])
                      /\ last'.v = 1 \/ last'.ret = 0
                      /\ last'.ret # 0 =>
                             Len(a'[q]) = IF 2 * Len(a[q]) > PLQU_INIZ
                                          THEN 2 * Len(a[q]) ELSE PLQU_INIZ]_vars

\* second life of slot 0: it came back with 16 cells, took 16 appends
\* without resizing and the 17th has just resized it to 32
C17_Witness ==
    /\ nmake = 2 /\ Held(0) /\ OnlyAppends(0)
    /\ last.op = "add" /\ last.q = 0 /\ last.v = 1 /\ last.ret = 17
    /\ Len(a[0]) = 32

\* C18: while a queue stays in use its head never decreases, so an id
\* at or below head never becomes addressable again.
C18_HeadMonotone ==
    [][\A q \in Slots :
          (Held(q) /\ Held(q)') =>
              /\ head'[q] >= head[q]
              /\ \A id \in 1 .. head[q] : ~InRange(q, id)']_vars

\* C19: in every queue in use that has a buffer, tail - head is at most
\* the buffer length, no two ids in (head, tail] share a cell, and
\* plqu_get(id) is, for every id in (head, tail], the value last written
\* for that id by plqu_add or plqu_put.
C19_WindowFits ==
    \A q \in Slots :
        (Held(q) /\ Len(a[q]) > 0) =>
            /\ tail[q] - head[q] <= Len(a[q])
            /\ \A i, j \in 1 .. tail[q] :
                   (InRange(q, i) /\ InRange(q, j) /\ i # j) =>
                       slot_of(q, i) # slot_of(q, j)
            /\ \A id \in 1 .. tail[q] :
                   InRange(q, id) => plqu_get(q, id) = gv[q][id]

\* C20: once plqu_iter_next has returned false, and while only appends
\* to its queue follow, plqu_iter_qid reports 0 and plqu_iter_put would
\* fail; and if ids were appended since (the iterator's position, tail + 1
\* at the time, is now an id of the queue), the next plqu_iter_next
\* returns true at the first of them.
C20_ExhaustedThenAppends ==
    [][/\ exh' => (plqu_iter_qid(iter)' = 0 /\ ~iter_put_ok')
       /\ (exh /\ last'.op = "next" /\ iter.i <= tail[iter.q]
              /\ iter.i > head[iter.q]) =>
             last'.ret = 1 /\ iter'.i = iter.i]_vars

\* C9: head <= tail in every slot.
C9_HeadLeTail == \A s \in Slots : head[s] <= tail[s]

\* no call returns, and no iterator exposes, a cell that was never written
\* or lies outside the buffer: the two markers never reach a caller
NoWildRead ==
    /\ last.ret # Uninit /\ last.ret # Wild
    /\ iter.v # Uninit /\ iter.v # Wild
    /\ \A q \in Slots :
          /\ plqu_top(q) # Uninit /\ plqu_top(q) # Wild
          /\ \A id \in 0 .. (DeepMaxTail + 1) :
                plqu_get(q, id) # Uninit /\ plqu_get(q, id) # Wild

====
